---- MODULE Spec2Model ----
(***************************************************************************)
(* The allocation engine of AltarServersJobs (src/main.py, src/objects.py):*)
(* Suggestion (tiers, pair, single), JobAllocator._logic, JobAllocator.main*)
(* and JobAllocator.find_complete, as a state machine.                     *)
(*                                                                         *)
(* A Server is identified by its name (Server.__hash__ hashes the name and *)
(* the dataclass equality compares the name first); rosters hold servers   *)
(* with distinct names, so a server is modelled by its name, a number, and *)
(* list membership (`in`) is membership of that name.                      *)
(***************************************************************************)
EXTENDS Naturals, Integers, Sequences, FiniteSets, TLC

VARIABLES
    servers,                      \* self.servers: the roster, a list of server names
    fields,                       \* name -> the Server's height, stamina and age flags
    jobs_doing,                   \* name -> Server.jobs_doing
    jobs,                         \* self.jobs: list of Job records (job.name is its index)
    shuffle,                      \* self.shuffle
    remove_previous_suggestions,  \* self.remove_previous_suggestions
    max_jobs_override,            \* self.max_jobs_override (0 is False)
    max_jobs,                     \* self.max_jobs
    previous_suggestions,         \* self.previous_suggestions: job name -> list of tuples
    previous_pairs,               \* self.previous_pairs: list of tuples
    calc_jobs,                    \* self.calc_jobs: the Suggestions of the running round
    suggest,                      \* the Suggestion built by the last call of _logic
    not_doing,                    \* self.not_doing
    pc,                           \* where the program is
    in_find_complete,             \* main() was called by find_complete()
    error,                        \* the exception that ended the program, or "none"
    rounds,                       \* calls of main() so far
    max_rounds                    \* calls of main() the model follows

vars == <<servers, fields, jobs_doing, jobs, shuffle, remove_previous_suggestions,
          max_jobs_override, max_jobs, previous_suggestions, previous_pairs,
          calc_jobs, suggest, not_doing, pc, in_find_complete, error, rounds,
          max_rounds>>

----------------------------------------------------------------------------
(* Bounds of the model *)

MaxServers == 2
MaxJobs == 2
MaxRounds == 2

(* objects.py: the largest Height and Stamina values *)
TALL == 4
HIGH == 3

----------------------------------------------------------------------------
(* Lists *)

Range(s) == {s[i] : i \in 1..Len(s)}

\* list.remove(x) of a list that holds x: drops the first occurrence
ListRemove(s, x) ==
    LET i == CHOOSE k \in 1..Len(s) : s[k] = x /\ \A m \in 1..(k - 1) : s[m] # x
    IN  SubSeq(s, 1, i - 1) \o SubSeq(s, i + 1, Len(s))

\* s[:k] for k >= 0
Prefix(s, k) == SubSeq(s, 1, IF k < Len(s) THEN k ELSE Len(s))

ShufflesWithRepeats(s) == [1..Len(s) -> Range(s)]

\* the lists random.shuffle can leave in place of s
Shuffles(s) ==
    {p \in [1..Len(s) -> Range(s)] :
        \A i, j \in 1..Len(s) : i # j => p[i] # p[j]}

MaxOf(S) == IF S = {} THEN 0 ELSE CHOOSE m \in S : \A x \in S : x <= m

RECURSIVE SortFrom(_, _, _, _)
SortFrom(s, key, k, top) ==
    IF k > top THEN <<>>
    ELSE SelectSeq(s, LAMBDA x : key[x] = k) \o SortFrom(s, key, k + 1, top)

Unsorted(s, key) == s

\* list.sort(key=...) is stable: equal keys keep their relative order
StableSort(s, key) == SortFrom(s, key, 0, MaxOf({key[x] : x \in Range(s)}))

----------------------------------------------------------------------------
(* Suggestion *)

ListNames == <<"min", "med", "max">>

NewSuggestion(job_name) ==
    [job_name |-> job_name,
     suggestions |-> [n \in {"min", "med", "max"} |-> <<>>],
     suggested |-> <<>>]

\* the squared value of Suggestion.calculate_distance: the code compares the
\* square roots of these integers, which are ordered as the integers are
calculate_distance(f1, f2) ==
    (f1.height - f2.height) * (f1.height - f2.height)
    + (f1.stamina - f2.stamina) * (f1.stamina - f2.stamina)

move_server_to_max(sg, server, from_list, to_list) ==
    IF server \in Range(sg.suggestions[from_list])
    THEN LET removed == [sg.suggestions EXCEPT
                            ![from_list] = ListRemove(@, server)]
         IN  [sg EXCEPT !.suggestions =
                 [removed EXCEPT !["max"] = Append(@, server)]]
    ELSE sg

move_server(sg, server, from_list, to_list) ==
    IF server \in Range(sg.suggestions[from_list])
    THEN LET removed == [sg.suggestions EXCEPT
                            ![from_list] = ListRemove(@, server)]
         IN  [sg EXCEPT !.suggestions =
                 [removed EXCEPT ![to_list] = Append(@, server)]]
    ELSE sg

add_server_unchecked(sg, server) ==
    [sg EXCEPT !.suggestions["min"] = Append(@, server)]

add_server(sg, server) ==
    IF server \notin Range(sg.suggestions["min"])
    THEN [sg EXCEPT !.suggestions["min"] = Append(@, server)]
    ELSE sg

remove_server(sg, server) ==
    IF server \in Range(sg.suggestions["min"])
    THEN [sg EXCEPT !.suggestions["min"] = ListRemove(@, server)]
    ELSE IF server \in Range(sg.suggestions["med"])
    THEN [sg EXCEPT !.suggestions["med"] = ListRemove(@, server)]
    ELSE IF server \in Range(sg.suggestions["max"])
    THEN [sg EXCEPT !.suggestions["max"] = ListRemove(@, server)]
    ELSE sg

\* Python's None where a Server is expected (names are 1, 2, ...), and where a
\* pair is expected
None == 0
NoPair == <<>>

\* the list Suggestion.single reads: the first non-empty one, in the order min, med, max
FirstList(sg) ==
    IF sg.suggestions["min"] # <<>> THEN sg.suggestions["min"]
    ELSE IF sg.suggestions["med"] # <<>> THEN sg.suggestions["med"]
    ELSE sg.suggestions["max"]

single_last(sg, jd) ==
    LET l == FirstList(sg)
    IN  IF l # <<>>
        THEN [suggested |-> <<l[Len(l)]>>,
              jobs_doing |-> [jd EXCEPT ![l[Len(l)]] = @ + 1]]
        ELSE [suggested |-> sg.suggested, jobs_doing |-> jd]

\* Suggestion.single(store=True): the new `suggested` and the new counters
single(sg, jd) ==
    LET l == FirstList(sg)
    IN  IF l # <<>>
        THEN [suggested |-> <<l[1]>>,
              jobs_doing |-> [jd EXCEPT ![l[1]] = @ + 1]]
        ELSE [suggested |-> sg.suggested, jobs_doing |-> jd]

\* Suggestion.single(store=False): the value returned
single_nostore(sg) ==
    LET l == FirstList(sg)
    IN  IF l # <<>> THEN l[1] ELSE None

\* [set(pair) for pair in previous_pairs][:remove_previous], as a set of sets
ExcludedPairs(prev_pairs, remove_previous) ==
    {Range(prev_pairs[i]) : i \in 1..Len(Prefix(prev_pairs, remove_previous))}

MostSimilarInLast(l, f, excluded) ==
    LET Idx == {ij \in (1..Len(l)) \X (1..Len(l)) :
                   ij[1] < ij[2] /\ {l[ij[1]], l[ij[2]]} \notin excluded}
        D(ij) == calculate_distance(f[l[ij[1]]], f[l[ij[2]]])
        Before(a, b) == a[1] < b[1] \/ (a[1] = b[1] /\ a[2] < b[2])
    IN  IF Idx = {} THEN NoPair
        ELSE LET best == CHOOSE a \in Idx :
                     \A b \in Idx \ {a} : D(a) < D(b) \/ (D(a) = D(b) /\ Before(b, a))
             IN  <<l[best[1]], l[best[2]]>>

\* The inner loops of Suggestion.pair over one list: the pair (i, j), i < j, of
\* least distance among the pairs that are not excluded, the first one scanned
\* among equals (the comparison is strict); NoPair when every pair is excluded.
MostSimilarIn(l, f, excluded) ==
    LET Idx == {ij \in (1..Len(l)) \X (1..Len(l)) :
                   ij[1] < ij[2] /\ {l[ij[1]], l[ij[2]]} \notin excluded}
        D(ij) == calculate_distance(f[l[ij[1]]], f[l[ij[2]]])
        Before(a, b) == a[1] < b[1] \/ (a[1] = b[1] /\ a[2] < b[2])
    IN  IF Idx = {} THEN NoPair
        ELSE LET best == CHOOSE a \in Idx :
                     \A b \in Idx \ {a} : D(a) < D(b) \/ (D(a) = D(b) /\ Before(a, b))
             IN  <<l[best[1]], l[best[2]]>>

\* The loop over the lists of Suggestion.pair(store=True): every list that
\* yields a pair assigns self.suggested, and the loop goes on to the next list.
RECURSIVE PairLists(_, _, _, _, _)
PairLists(sg, f, excluded, k, suggested) ==
    IF k > Len(ListNames) THEN suggested
    ELSE LET most_similar == MostSimilarIn(sg.suggestions[ListNames[k]], f, excluded)
         IN  PairLists(sg, f, excluded, k + 1,
                       IF most_similar # NoPair THEN most_similar ELSE suggested)

\* The loop of the branch `total < 2` of Suggestion.pair: the server of the
\* roster nearest to server1, the first one met among equals; None if there is none.
FallbackPartnerAny(sg, servers_list, f, server1) ==
    LET Idx == {i \in 1..Len(servers_list) : servers_list[i] \notin Range(sg.suggested)}
        D(i) == calculate_distance(f[server1], f[servers_list[i]])
    IN  IF Idx = {} THEN None
        ELSE servers_list[CHOOSE a \in Idx :
                 \A b \in Idx \ {a} : D(a) < D(b) \/ (D(a) = D(b) /\ a < b)]

FallbackPartner(sg, servers_list, f, server1) ==
    LET Idx == {i \in 1..Len(servers_list) :
                   servers_list[i] # server1 /\ servers_list[i] \notin Range(sg.suggested)}
        D(i) == calculate_distance(f[server1], f[servers_list[i]])
    IN  IF Idx = {} THEN None
        ELSE servers_list[CHOOSE a \in Idx :
                 \A b \in Idx \ {a} : D(a) < D(b) \/ (D(a) = D(b) /\ a < b)]

Total(sg) ==
    Len(sg.suggestions["min"]) + Len(sg.suggestions["med"]) + Len(sg.suggestions["max"])

pair_counts_candidate(sg, servers_list, f, prev_pairs, remove_previous, jd) ==
    IF Total(sg) < 2
    THEN LET server1 == single_nostore(sg)
         IN  IF server1 = None /\ servers_list # <<>>
             \* calculate_distance(None, server2): None has no attribute height
             THEN [suggested |-> sg.suggested, jobs_doing |-> jd,
                   error |-> "AttributeError"]
             ELSE LET most_similar ==
                          IF server1 = None THEN None
                          ELSE FallbackPartner(sg, servers_list, f, server1)
                  IN  IF most_similar # None
                      THEN [suggested |-> <<server1, most_similar>>,
                            \* most_similar.jobs_doing += 1, then the loop over
                            \* self.suggested adds 1 to both servers
                            jobs_doing |-> [jd EXCEPT ![most_similar] = @ + 2,
                                                       ![server1] = @ + 1],
                            error |-> "none"]
                      ELSE [suggested |-> sg.suggested,
                            jobs_doing |-> IF server1 = None THEN jd
                                           ELSE [jd EXCEPT ![server1] = @ + 1],
                            error |-> "ValueError"]
    ELSE LET suggested == PairLists(sg, f, ExcludedPairs(prev_pairs, remove_previous),
                                    1, sg.suggested)
         IN  IF Len(suggested) = 0
             THEN [suggested |-> suggested, jobs_doing |-> jd, error |-> "ValueError"]
             ELSE [suggested |-> suggested,
                   jobs_doing |-> [s \in DOMAIN jd |->
                                      IF s \in Range(suggested) THEN jd[s] + 1 ELSE jd[s]],
                   error |-> "none"]

\* Suggestion.pair(servers, previous_pairs, remove_previous, store=True): the
\* new `suggested`, the new counters and the exception raised ("none" if none).
pair(sg, servers_list, f, prev_pairs, remove_previous, jd) ==
    IF Total(sg) < 2
    THEN LET server1 == single_nostore(sg)
         IN  IF server1 = None /\ servers_list # <<>>
             \* calculate_distance(None, server2): None has no attribute height
             THEN [suggested |-> sg.suggested, jobs_doing |-> jd,
                   error |-> "AttributeError"]
             ELSE LET most_similar ==
                          IF server1 = None THEN None
                          ELSE FallbackPartner(sg, servers_list, f, server1)
                  IN  IF most_similar # None
                      THEN [suggested |-> <<server1, most_similar>>,
                            \* most_similar.jobs_doing += 1, then the loop over
                            \* self.suggested adds 1 to both servers
                            jobs_doing |-> [jd EXCEPT ![most_similar] = @ + 2,
                                                       ![server1] = @ + 1],
                            error |-> "none"]
                      ELSE [suggested |-> sg.suggested, jobs_doing |-> jd,
                            error |-> "ValueError"]
    ELSE LET suggested == PairLists(sg, f, ExcludedPairs(prev_pairs, remove_previous),
                                    1, sg.suggested)
         IN  IF Len(suggested) = 0
             THEN [suggested |-> suggested, jobs_doing |-> jd, error |-> "ValueError"]
             ELSE [suggested |-> suggested,
                   jobs_doing |-> [s \in DOMAIN jd |->
                                      IF s \in Range(suggested) THEN jd[s] + 1 ELSE jd[s]],
                   error |-> "none"]

----------------------------------------------------------------------------
(* JobAllocator._logic: the candidate filter *)

\* the first loop over the servers: idle servers that are not senior, or any
\* idle server when the job requires a senior
RECURSIVE FirstPass(_, _, _, _, _, _)
FirstPass(sg, servers_list, i, job, f, jd) ==
    IF i > Len(servers_list) THEN sg
    ELSE LET server == servers_list[i]
         IN  FirstPass(IF jd[server] = 0 /\ (~f[server].is_senior \/ job.senior_required)
                       THEN add_server(sg, server)
                       ELSE sg,
                       servers_list, i + 1, job, f, jd)

MeetsMinimum(fs, job) ==
    fs.height >= job.min_height /\ fs.stamina >= job.min_stamina

MeetsAge(fs, job) ==
    \/ (job.younger_required = 1 /\ fs.is_young)
    \/ (job.younger_required = 2 /\ fs.is_young)
    \/ (job.senior_required /\ fs.is_senior)
    \/ (job.older_required /\ fs.is_older)

OverQuotaNoExemption(fs, job, doing, quota) == doing >= quota

OverQuota(fs, job, doing, quota) ==
    doing >= quota /\ ~(job.younger_required # 0 /\ fs.is_young)

\* the body of the second loop, for one server
SecondPassStep(sg, server, job, f, jd, quota) ==
    LET fs == f[server]
        s1 == IF MeetsMinimum(fs, job) THEN add_server(sg, server) ELSE sg
        s2 == IF MeetsAge(fs, job) THEN move_server(s1, server, "min", "med") ELSE s1
        s3 == IF job.younger_required = 1 /\ ~fs.is_young
              THEN remove_server(s2, server) ELSE s2
        s4 == IF job.younger_required = 2 /\ fs.is_senior
              THEN remove_server(s3, server) ELSE s3
    IN  IF OverQuota(fs, job, jd[server], quota) THEN remove_server(s4, server) ELSE s4

RECURSIVE SecondPass(_, _, _, _, _, _, _)
SecondPass(sg, servers_list, i, job, f, jd, quota) ==
    IF i > Len(servers_list) THEN sg
    ELSE SecondPass(SecondPassStep(sg, servers_list[i], job, f, jd, quota),
                    servers_list, i + 1, job, f, jd, quota)

RECURSIVE RemoveAll(_, _, _)
RemoveAll(sg, tuple, i) ==
    IF i > Len(tuple) THEN sg
    ELSE RemoveAll(remove_server(sg, tuple[i]), tuple, i + 1)

RECURSIVE RemoveEach(_, _, _)
RemoveEach(sg, tuples, i) ==
    IF i > Len(tuples) THEN sg
    ELSE RemoveEach(RemoveAll(sg, tuples[i], 1), tuples, i + 1)

\* previous_suggestions.get(job.name, ())[:(remove_previous_suggestions - 1)]
PreviousWindow(history, remove_previous) == Prefix(history, remove_previous - 1)

\* the loop over the previous suggestions of the job
RemovePrevious(sg, history, remove_previous) ==
    IF remove_previous # 0
    THEN RemoveEach(sg, PreviousWindow(history, remove_previous), 1)
    ELSE sg

\* _logic up to the choice: the Suggestion with its three lists filled
Classify(job_name, servers_list, job, f, jd, quota, history, remove_previous) ==
    RemovePrevious(
        SecondPass(FirstPass(NewSuggestion(job_name), servers_list, 1, job, f, jd),
                   servers_list, 1, job, f, jd, quota),
        history, remove_previous)

\* the two loops over the servers and the loop over the previous suggestions,
\* run on a Suggestion that already holds servers
Refilter(sg, servers_list, job, f, jd, quota, history, remove_previous) ==
    RemovePrevious(
        SecondPass(FirstPass(sg, servers_list, 1, job, f, jd),
                   servers_list, 1, job, f, jd, quota),
        history, remove_previous)

----------------------------------------------------------------------------
(* The inputs: servers.json and jobs.json *)

Srv(h, s, senior, young, older) ==
    [height |-> h, stamina |-> s, is_senior |-> senior, is_young |-> young,
     is_older |-> older]

Job(h, s, senior, younger, older, is_pair) ==
    [min_height |-> h, min_stamina |-> s, senior_required |-> senior,
     younger_required |-> younger, older_required |-> older, requires_pair |-> is_pair]

ServerProfiles ==
    {Srv(TALL, HIGH, FALSE, FALSE, FALSE),
     Srv(2, 1, FALSE, TRUE, FALSE),
     Srv(3, 2, TRUE, FALSE, TRUE)}

JobProfiles ==
    {Job(0, 0, FALSE, 0, FALSE, FALSE),
     Job(0, 0, FALSE, 0, FALSE, TRUE),
     Job(3, 2, FALSE, 1, FALSE, FALSE),
     Job(3, 2, TRUE, 0, TRUE, TRUE)}

SeqsUpTo(S, lo, hi) == UNION {[1..n -> S] : n \in lo..hi}

----------------------------------------------------------------------------
(* JobAllocator *)

Callable == {"idle", "main_returned", "find_complete_returned"}

\* ceil(len(servers) / len(jobs)), and 1 in place of 0
Quota(n_servers, n_jobs) ==
    LET c == (n_servers + n_jobs - 1) \div n_jobs
    IN  IF c = 0 THEN 1 ELSE c

MainBeginFreshHistory ==
    /\ rounds < max_rounds
    /\ rounds' = rounds + 1
    /\ jobs_doing' = [s \in DOMAIN jobs_doing |-> 0]
    /\ max_jobs' = IF max_jobs_override = 0
                   THEN Quota(Len(servers), Len(jobs))
                   ELSE max_jobs
    /\ calc_jobs' = <<>>
    /\ previous_suggestions' = [j \in DOMAIN previous_suggestions |-> <<>>]
    /\ previous_pairs' = <<>>
    /\ pc' = "main"
    /\ UNCHANGED <<servers, fields, jobs, shuffle, remove_previous_suggestions,
                   max_jobs_override, suggest, not_doing, error, max_rounds>>

\* main(), up to the loop over the jobs
MainBegin ==
    /\ rounds < max_rounds
    /\ rounds' = rounds + 1
    /\ jobs_doing' = [s \in DOMAIN jobs_doing |-> 0]
    /\ max_jobs' = IF max_jobs_override = 0
                   THEN Quota(Len(servers), Len(jobs))
                   ELSE max_jobs
    /\ calc_jobs' = <<>>
    /\ pc' = "main"
    /\ UNCHANGED <<servers, fields, jobs, shuffle, remove_previous_suggestions,
                   max_jobs_override, previous_suggestions, previous_pairs,
                   suggest, not_doing, error, max_rounds>>

\* a caller calls main()
CallMain ==
    /\ pc \in Callable
    /\ in_find_complete' = FALSE
    /\ MainBegin

\* find_complete(), up to its loop
FindCompleteBegin ==
    /\ pc \in Callable
    /\ rounds < max_rounds
    /\ shuffle' = TRUE
    /\ in_find_complete' = TRUE
    /\ pc' = "find_complete_loop"
    /\ UNCHANGED <<servers, fields, jobs_doing, jobs, remove_previous_suggestions,
                   max_jobs_override, max_jobs, previous_suggestions, previous_pairs,
                   calc_jobs, suggest, not_doing, error, rounds, max_rounds>>

\* the loop of find_complete() calls main()
FindCompleteCallMain ==
    /\ pc = "find_complete_loop"
    /\ UNCHANGED in_find_complete
    /\ MainBegin

\* one pass of the loop over the jobs of main(): _logic(self.servers, job)
Logic ==
    /\ pc = "main"
    /\ Len(calc_jobs) < Len(jobs)
    /\ LET name == Len(calc_jobs) + 1
           job == jobs[name]
       IN  \E order \in (IF shuffle THEN Shuffles(servers) ELSE {servers}) :
             \E sorted \in {StableSort(order, jobs_doing)} :
             \E sg \in {Classify(name, sorted, job, fields, jobs_doing, max_jobs,
                                previous_suggestions[name], remove_previous_suggestions)} :
             \E res \in {IF job.requires_pair
                        THEN pair(sg, sorted, fields, previous_pairs,
                                  remove_previous_suggestions, jobs_doing)
                        ELSE single(sg, jobs_doing) @@ [error |-> "none"]} :
             LET done == [sg EXCEPT !.suggested = res.suggested]
             IN  /\ servers' = sorted
                 /\ jobs_doing' = res.jobs_doing
                 /\ suggest' = done
                 /\ IF res.error # "none"
                    THEN /\ error' = res.error
                         /\ pc' = "raised"
                         /\ UNCHANGED <<previous_pairs, previous_suggestions, calc_jobs>>
                    ELSE /\ previous_pairs' = IF job.requires_pair
                                              THEN Append(previous_pairs, res.suggested)
                                              ELSE previous_pairs
                         /\ previous_suggestions' =
                                [previous_suggestions EXCEPT ![name] = Append(@, res.suggested)]
                         /\ calc_jobs' = Append(calc_jobs, done)
                         /\ UNCHANGED <<error, pc>>
    /\ UNCHANGED <<fields, jobs, shuffle, remove_previous_suggestions, max_jobs_override,
                   max_jobs, not_doing, in_find_complete, rounds, max_rounds>>

NotDoingAtMostOne(servers_list, jd) ==
    Cardinality({s \in Range(servers_list) : jd[s] <= 1})

\* the servers main() counts as not doing any job
NotDoing(servers_list, jd) == Cardinality({s \in Range(servers_list) : jd[s] = 0})

MainReturnNoCount ==
    /\ pc = "main"
    /\ Len(calc_jobs) = Len(jobs)
    /\ pc' = IF in_find_complete THEN "find_complete_check" ELSE "main_returned"
    /\ UNCHANGED <<servers, fields, jobs_doing, jobs, shuffle,
                   remove_previous_suggestions, max_jobs_override, max_jobs,
                   previous_suggestions, previous_pairs, calc_jobs, suggest,
                   not_doing, in_find_complete, error, rounds, max_rounds>>

\* main(), after the loop over the jobs
MainReturn ==
    /\ pc = "main"
    /\ Len(calc_jobs) = Len(jobs)
    /\ not_doing' = NotDoing(servers, jobs_doing)
    /\ pc' = IF in_find_complete THEN "find_complete_check" ELSE "main_returned"
    /\ UNCHANGED <<servers, fields, jobs_doing, jobs, shuffle,
                   remove_previous_suggestions, max_jobs_override, max_jobs,
                   previous_suggestions, previous_pairs, calc_jobs, suggest,
                   in_find_complete, error, rounds, max_rounds>>

FoundAtMostOne(idle) == idle <= 1

\* the test of the loop of find_complete()
Found(idle) == idle = 0

\* find_complete(), after main() has returned
FindCompleteCheck ==
    /\ pc = "find_complete_check"
    /\ IF Found(not_doing)
       THEN /\ pc' = "find_complete_returned"
            /\ in_find_complete' = FALSE
       ELSE /\ pc' = "find_complete_loop"
            /\ UNCHANGED in_find_complete
    /\ UNCHANGED <<servers, fields, jobs_doing, jobs, shuffle,
                   remove_previous_suggestions, max_jobs_override, max_jobs,
                   previous_suggestions, previous_pairs, calc_jobs, suggest,
                   not_doing, error, rounds, max_rounds>>

\* JobAllocator(shuffle, remove_previous_suggestions, max_jobs_override) over
\* a roster and a job list
InitWith(rosters, job_lists, shuffles, removes, overrides, cap) ==
    /\ fields \in rosters
    /\ servers = [i \in 1..Len(fields) |-> i]
    /\ jobs_doing = [i \in 1..Len(fields) |-> 0]
    /\ jobs \in job_lists
    /\ shuffle \in shuffles
    /\ remove_previous_suggestions \in removes
    /\ max_jobs_override \in overrides
    /\ max_jobs = 2
    /\ previous_suggestions = [j \in 1..Len(jobs) |-> <<>>]
    /\ previous_pairs = <<>>
    /\ calc_jobs = <<>>
    /\ suggest = NewSuggestion(0)
    /\ not_doing = 0
    /\ pc = "idle"
    /\ in_find_complete = FALSE
    /\ error = "none"
    /\ rounds = 0
    /\ max_rounds = cap

Init ==
    InitWith(SeqsUpTo(ServerProfiles, 0, MaxServers), SeqsUpTo(JobProfiles, 1, MaxJobs),
             {FALSE}, {2}, {0}, MaxRounds)

Next ==
    \/ CallMain
    \/ FindCompleteBegin
    \/ FindCompleteCallMain
    \/ Logic
    \/ MainReturn
    \/ FindCompleteCheck

Spec == Init /\ [][Next]_vars

----------------------------------------------------------------------------
(* What the claims speak of *)

\* main() has returned and its round stands in calc_jobs and jobs_doing
RoundComplete ==
    /\ pc \in {"main_returned", "find_complete_check", "find_complete_returned"}
    /\ Len(calc_jobs) = Len(jobs)

Chosen(i) == Range(calc_jobs[i].suggested)

\* the number of jobs of the round whose chosen tuple holds w
TimesChosen(w) == Cardinality({i \in 1..Len(calc_jobs) : w \in Chosen(i)})

TimesChosenBefore(w, i) == Cardinality({j \in 1..(i - 1) : w \in Chosen(j)})

InTiers(sg) ==
    Range(sg.suggestions["min"]) \cup Range(sg.suggestions["med"])
        \cup Range(sg.suggestions["max"])

NoDuplicates(l) == \A i, j \in 1..Len(l) : i # j => l[i] # l[j]

\* the last k entries of a list
Suffix(s, k) == SubSeq(s, IF k < Len(s) THEN Len(s) - k + 1 ELSE 1, Len(s))

\* a list without its last entry
Most(s) == SubSeq(s, 1, Len(s) - 1)

\* the job _logic processed last in the running round, and its Suggestion
JobDone == Len(calc_jobs) >= 1
LastName == Len(calc_jobs)
LastSuggestion == calc_jobs[Len(calc_jobs)]

----------------------------------------------------------------------------
(* C1 *)

\* C1: after every round that completes, every server's jobs_doing equals the
\* number of jobs of the round whose chosen tuple contains the server.
C1_CounterEqualsTimesChosen ==
    RoundComplete => \A w \in Range(servers) : jobs_doing[w] = TimesChosen(w)

----------------------------------------------------------------------------
(* C2 *)

\* C2: whenever find_complete returns, the last round reported no idle server
\* and every server of the roster is in the chosen tuple of some job of it.
C2_ReturnsOnlyWhenNoneIdle ==
    pc = "find_complete_returned" =>
        /\ not_doing = 0
        /\ \A w \in Range(servers) : jobs_doing[w] # 0 /\ TimesChosen(w) >= 1

C2_Witness ==
    /\ pc = "find_complete_returned"
    /\ Len(servers) >= 2
    /\ rounds >= 2

----------------------------------------------------------------------------
(* C3 *)

\* C3: without an override quota, no server is chosen for more than
\* Q = max(1, ceil(servers / jobs)) jobs of a round, except a young server
\* chosen for a job that requires younger servers.
C3_QuotaRespected ==
    max_jobs_override = 0 =>
        \A i \in 1..Len(calc_jobs) : \A w \in Chosen(i) :
            \/ TimesChosenBefore(w, i) < Quota(Len(servers), Len(jobs))
            \/ (jobs[i].younger_required # 0 /\ fields[w].is_young)

----------------------------------------------------------------------------
(* C4 *)

\* C4: with remove_previous_suggestions = r >= 2, in every round the filter of a
\* job leaves in no list a server of the r-1 most recent entries of
\* previous_suggestions[job.name] (the entries before the one this round added).
C4_RecentSuggestionsRemoved ==
    (JobDone /\ remove_previous_suggestions >= 2) =>
        LET recent == Suffix(Most(previous_suggestions[LastName]),
                             remove_previous_suggestions - 1)
        IN  \A e \in 1..Len(recent) : Range(recent[e]) \cap InTiers(LastSuggestion) = {}

----------------------------------------------------------------------------
(* C5 *)

\* C5: the pair chosen for a pair job is not among the k =
\* remove_previous_suggestions most recent entries of previous_pairs (those
\* before its own), whenever a list of the job holds another pair that is not
\* among them.
C5_RecentPairNotRepeated ==
    (JobDone /\ jobs[LastName].requires_pair) =>
        LET before == Most(previous_pairs)
            recent == {Range(before[e]) :
                          e \in (Len(before) - Len(Suffix(before, remove_previous_suggestions)) + 1)
                                ..Len(before)}
            other == \E n \in {"min", "med", "max"} :
                         \E a, b \in Range(LastSuggestion.suggestions[n]) :
                             a # b /\ {a, b} # Chosen(LastName) /\ {a, b} \notin recent
        IN  other => Chosen(LastName) \notin recent

----------------------------------------------------------------------------
(* C6 *)

TiersDisjoint(sg) ==
    /\ Range(sg.suggestions["min"]) \cap Range(sg.suggestions["med"]) = {}
    /\ Range(sg.suggestions["min"]) \cap Range(sg.suggestions["max"]) = {}
    /\ Range(sg.suggestions["med"]) \cap Range(sg.suggestions["max"]) = {}
    /\ \A n \in {"min", "med", "max"} : NoDuplicates(sg.suggestions[n])

\* C6: the lists min, med and max of every Suggestion the filter produces are
\* pairwise disjoint and hold no server twice.
C6_TiersDisjoint ==
    /\ TiersDisjoint(suggest)
    /\ \A i \in 1..Len(calc_jobs) : TiersDisjoint(calc_jobs[i])

\* the Suggestion of the first job of a round (every server is idle), with a
\* server in min that both loops of the filter tried to add, and a server in med
C6_Witness ==
    /\ suggest.job_name = 1
    /\ \E w \in Range(suggest.suggestions["min"]) :
          ~fields[w].is_senior /\ MeetsMinimum(fields[w], jobs[1])
    /\ Len(suggest.suggestions["med"]) >= 1

----------------------------------------------------------------------------
(* C7 *)

\* the first element of the first non-empty list in the order min, med, max
FirstCandidate(sg) ==
    IF Len(sg.suggestions["min"]) > 0 THEN sg.suggestions["min"][1]
    ELSE IF Len(sg.suggestions["med"]) > 0 THEN sg.suggestions["med"][1]
    ELSE sg.suggestions["max"][1]

\* _logic processes in this step a job that does not require a pair
SingleJobNext ==
    /\ pc = "main"
    /\ Len(calc_jobs) < Len(jobs)
    /\ ~jobs[Len(calc_jobs) + 1].requires_pair

\* C7: for a job that does not require a pair, the choice is the first element
\* of the first non-empty list in the order min, med, max, that server's counter
\* grows by 1 and no other counter changes; if the three lists are empty the
\* chosen tuple stays empty, no counter changes and nothing is raised.
C7_SingleChoice ==
    [][SingleJobNext =>
          /\ pc' # "raised"
          /\ error' = "none"
          /\ Len(calc_jobs') = Len(calc_jobs) + 1
          /\ LET sg == calc_jobs'[Len(calc_jobs')]
             IN  IF InTiers(sg) = {}
                 THEN sg.suggested = <<>> /\ jobs_doing' = jobs_doing
                 ELSE /\ sg.suggested = <<FirstCandidate(sg)>>
                      /\ jobs_doing' = [w \in DOMAIN jobs_doing |->
                                           IF w = FirstCandidate(sg)
                                           THEN jobs_doing[w] + 1
                                           ELSE jobs_doing[w]]]_vars

\* a round in which one single-choice job took the first of several candidates
\* and another found its three lists empty
C7_Witness ==
    \E i, j \in 1..Len(calc_jobs) :
        /\ ~jobs[i].requires_pair /\ ~jobs[j].requires_pair
        /\ Cardinality(InTiers(calc_jobs[i])) >= 2
        /\ calc_jobs[i].suggested = <<FirstCandidate(calc_jobs[i])>>
        /\ InTiers(calc_jobs[j]) = {}
        /\ calc_jobs[j].suggested = <<>>

----------------------------------------------------------------------------
(* C8 *)

\* C8: after a round that completes, a job that requires a pair has two
\* distinct servers chosen, a job that does not has one, or none only when its
\* three lists were empty; no chosen tuple ever holds more than two servers or
\* the same server twice.
C8_ChosenShape ==
    /\ RoundComplete =>
          \A i \in 1..Len(jobs) :
              IF jobs[i].requires_pair
              THEN Len(calc_jobs[i].suggested) = 2
              ELSE \/ Len(calc_jobs[i].suggested) = 1
                   \/ (Len(calc_jobs[i].suggested) = 0 /\ InTiers(calc_jobs[i]) = {})
    /\ \A i \in 1..Len(calc_jobs) :
          Len(calc_jobs[i].suggested) <= 2 /\ NoDuplicates(calc_jobs[i].suggested)
    /\ Len(suggest.suggested) <= 2 /\ NoDuplicates(suggest.suggested)

\* a completed round with a pair built by the branch `total < 2` of pair(), a
\* pair found inside a list and a single choice
C8_Witness ==
    /\ RoundComplete
    /\ \E i \in 1..Len(jobs) :
          jobs[i].requires_pair /\ Cardinality(InTiers(calc_jobs[i])) = 1
    /\ \E i \in 1..Len(jobs) : ~jobs[i].requires_pair /\ Len(calc_jobs[i].suggested) = 1

----------------------------------------------------------------------------
(* C9 *)

\* C9: for a pair job whose lists hold at least two servers, if the list min
\* holds a pair that is not excluded, the chosen pair is the nearest such pair
\* of min, whatever the lists med and max hold.
C9_MinListWins ==
    (JobDone /\ jobs[LastName].requires_pair /\ Total(LastSuggestion) >= 2) =>
        LET in_min == MostSimilarIn(LastSuggestion.suggestions["min"], fields,
                                    ExcludedPairs(Most(previous_pairs),
                                                  remove_previous_suggestions))
        IN  in_min # NoPair => LastSuggestion.suggested = in_min

----------------------------------------------------------------------------
(* C10 *)

\* C10: when the filter leaves the three lists of a pair job empty, the roster
\* not being empty, pair() fails with the ValueError "No pair found for job"
\* and with no other exception.
C10_NoPairIsValueError ==
    (pc = "raised" /\ jobs[suggest.job_name].requires_pair
        /\ servers # <<>> /\ InTiers(suggest) = {}) =>
        error = "ValueError"

----------------------------------------------------------------------------
(* C11 *)

\* C11: a ValueError "No pair found" raised by a round that find_complete runs
\* does not end find_complete: the program is back in the loop of
\* find_complete, which calls main() again.
C11_NoPairErrorRetried ==
    (in_find_complete /\ error = "ValueError") => pc = "find_complete_loop"

----------------------------------------------------------------------------
(* C12 *)

\* the servers the jobs of a round can hold: one per job, two per pair job
RECURSIVE CapacityFrom(_, _)
CapacityFrom(job_list, i) ==
    IF i > Len(job_list) THEN 0
    ELSE (IF job_list[i].requires_pair THEN 2 ELSE 1) + CapacityFrom(job_list, i + 1)

Capacity(job_list) == CapacityFrom(job_list, 1)

\* C12: with more servers in the roster than the jobs can hold, every round
\* that completes counts at least one idle server and find_complete never
\* returns.
C12_NoExitWhenOverCapacity ==
    Len(servers) > Capacity(jobs) =>
        /\ pc # "find_complete_returned"
        /\ RoundComplete => not_doing > 0

\* find_complete has run two rounds on such a roster and is back in its loop
C12_Witness ==
    /\ Len(servers) > Capacity(jobs)
    /\ in_find_complete
    /\ pc = "find_complete_loop"
    /\ rounds >= 2
    /\ not_doing > 0

----------------------------------------------------------------------------
(* C13 *)

NoAgeFlag(fs) == ~fs.is_senior /\ ~fs.is_young /\ ~fs.is_older

NoAgeRequirement(job) ==
    ~job.senior_required /\ job.younger_required = 0 /\ ~job.older_required

\* C13: the first round over J pair jobs and 2*J servers, no job with an age
\* requirement, no server with an age flag, max_jobs >= 1, ends with no idle
\* server.
C13_ExactRosterNoIdle ==
    (/\ RoundComplete
     /\ rounds = 1
     /\ Len(servers) = 2 * Len(jobs)
     /\ \A i \in 1..Len(jobs) : jobs[i].requires_pair /\ NoAgeRequirement(jobs[i])
     /\ \A w \in Range(servers) : NoAgeFlag(fields[w])
     /\ max_jobs >= 1)
        => not_doing = 0

----------------------------------------------------------------------------
(* C14 *)

\* the servers chosen by the jobs of the round before job i
ChosenBefore(i) == UNION {Chosen(j) : j \in 1..(i - 1)}

\* C14: when pair() completes a pair through the branch `total < 2`, the
\* partner is the nearest server of the roster, the first met among equals,
\* among the servers that are neither the candidate nor chosen by an earlier
\* job of the round; in particular it was not chosen earlier in the round.
C14_FallbackPartnerFresh ==
    (/\ JobDone
     /\ jobs[LastName].requires_pair
     /\ Total(LastSuggestion) < 2
     /\ Len(LastSuggestion.suggested) = 2)
        => LET server1 == LastSuggestion.suggested[1]
               partner == LastSuggestion.suggested[2]
               Idx == {i \in 1..Len(servers) :
                          servers[i] # server1 /\ servers[i] \notin ChosenBefore(LastName)}
               D(i) == calculate_distance(fields[server1], fields[servers[i]])
           IN  /\ partner \notin ChosenBefore(LastName)
               /\ \E a \in Idx :
                      /\ partner = servers[a]
                      /\ \A b \in Idx \ {a} : D(a) < D(b) \/ (D(a) = D(b) /\ a < b)

----------------------------------------------------------------------------
(* C15 *)

\* C15: every server the filter leaves in a list of a job, and every server
\* chosen from the lists, has height >= job.min_height and stamina >=
\* job.min_stamina.
C15_TiersMeetMinimum ==
    \A i \in 1..Len(calc_jobs) :
        /\ \A w \in InTiers(calc_jobs[i]) : MeetsMinimum(fields[w], jobs[i])
        /\ \A w \in Chosen(i) \cap InTiers(calc_jobs[i]) : MeetsMinimum(fields[w], jobs[i])

----------------------------------------------------------------------------
(* C16 *)

\* pair() found the list min alone filled, and none of its pairs excluded
OnlyMinNoExclusion(sg, prev_pairs) ==
    /\ Len(sg.suggestions["min"]) >= 2
    /\ sg.suggestions["med"] = <<>>
    /\ sg.suggestions["max"] = <<>>
    /\ \A a, b \in Range(sg.suggestions["min"]) :
           {a, b} \notin ExcludedPairs(prev_pairs, remove_previous_suggestions)

\* the list is A(TALL, HIGH), B(SHORT, LOW), C(MEDIUM, MEDIUM), in this order
IsABC(l) ==
    /\ Len(l) = 3
    /\ fields[l[1]].height = TALL /\ fields[l[1]].stamina = HIGH
    /\ fields[l[2]].height = 2 /\ fields[l[2]].stamina = 1
    /\ fields[l[3]].height = 3 /\ fields[l[3]].stamina = 2

\* C16: for a pair job whose list min is A(TALL, HIGH), B(SHORT, LOW),
\* C(MEDIUM, MEDIUM) in this order, med and max empty and no pair excluded, the
\* chosen pair is (A, C); in general the pair chosen within min is at the least
\* distance over (height, stamina), and no pair scanned before it is as near.
C16_NearestPairFirstOnTies ==
    (/\ JobDone
     /\ jobs[LastName].requires_pair
     /\ OnlyMinNoExclusion(LastSuggestion, Most(previous_pairs)))
        => LET l == LastSuggestion.suggestions["min"]
               D(i, j) == calculate_distance(fields[l[i]], fields[l[j]])
           IN  /\ IsABC(l) => LastSuggestion.suggested = <<l[1], l[3]>>
               /\ \E i, j \in 1..Len(l) :
                      /\ i < j
                      /\ LastSuggestion.suggested = <<l[i], l[j]>>
                      /\ \A m, n \in 1..Len(l) :
                             m < n =>
                                 /\ D(i, j) <= D(m, n)
                                 /\ (m < i \/ (m = i /\ n < j)) => D(i, j) < D(m, n)

\* the scenario: the pair job is the first of the first round, and its chosen
\* pair is (A, C) of the list min = [A, B, C]
C16_Witness ==
    /\ JobDone
    /\ rounds = 1
    /\ jobs[LastName].requires_pair
    /\ OnlyMinNoExclusion(LastSuggestion, Most(previous_pairs))
    /\ IsABC(LastSuggestion.suggestions["min"])
    /\ LastSuggestion.suggested =
           <<LastSuggestion.suggestions["min"][1], LastSuggestion.suggestions["min"][3]>>

----------------------------------------------------------------------------
(* C17 *)

\* C17: the idle count of a round that completes is the number of servers of
\* the roster in no chosen tuple of the round, and a server's jobs_doing is 0
\* at the end of the round exactly when no job of the round chose it.
C17_IdleCountIsUnchosen ==
    RoundComplete =>
        /\ not_doing = Cardinality({w \in Range(servers) : TimesChosen(w) = 0})
        /\ \A w \in Range(servers) : jobs_doing[w] = 0 <=> TimesChosen(w) = 0

\* a completed round of two jobs with an idle server and a chosen server
C17_Witness ==
    /\ RoundComplete
    /\ Len(jobs) >= 2
    /\ not_doing >= 1
    /\ \E w \in Range(servers) : jobs_doing[w] >= 1 /\ TimesChosen(w) >= 1

----------------------------------------------------------------------------
(* C18 *)

\* _logic processes a job in this step
JobNext == pc = "main" /\ Len(calc_jobs) < Len(jobs)

\* C18: running the filter again on the Suggestion it has just classified, with
\* the same roster, counters, job and history, leaves the lists min, med and
\* max as they are.
C18_FilterIdempotent ==
    [][JobNext =>
          LET name == Len(calc_jobs) + 1
          IN  Refilter(suggest', servers', jobs[name], fields, jobs_doing, max_jobs,
                       previous_suggestions[name], remove_previous_suggestions).suggestions
                  = suggest'.suggestions]_vars

----------------------------------------------------------------------------
(* C19 *)

\* C19: the filter of a job with younger_required set leaves no senior server
\* in a list, whatever the server's other age flags.
C19_NoSeniorForYounger ==
    \A i \in 1..Len(calc_jobs) :
        jobs[i].younger_required # 0 =>
            \A w \in InTiers(calc_jobs[i]) : ~fields[w].is_senior

----------------------------------------------------------------------------
(* C20 *)

\* the least c >= 1 with c * m >= n: ceil(n / m), and 1 in place of 0
CeilFlooredAtOne(n, m) ==
    CHOOSE c \in 1..(n + 1) : c * m >= n /\ \A d \in 1..(c - 1) : d * m < n

\* C20: once a round has begun, the quota the filter applies (max_jobs) is the
\* override value when max_jobs_override is set, and otherwise
\* ceil(servers / jobs), 1 at least.
C20_QuotaValue ==
    rounds >= 1 =>
        max_jobs = IF max_jobs_override # 0
                   THEN max_jobs_override
                   ELSE CeilFlooredAtOne(Len(servers), Len(jobs))

----------------------------------------------------------------------------
(* C21 *)

\* C21: previous_suggestions and previous_pairs only grow, at their end: a job
\* that _logic processes to its end appends its chosen tuple to
\* previous_suggestions[job.name] and to nothing else but, if it requires a
\* pair, previous_pairs; every other step, the start of a new round included,
\* leaves both histories as they are.
C21_HistoriesAppendOnly ==
    [][IF JobNext /\ pc' # "raised"
       THEN LET name == Len(calc_jobs) + 1
                chosen == calc_jobs'[name].suggested
            IN  /\ previous_suggestions' =
                       [previous_suggestions EXCEPT ![name] = Append(@, chosen)]
                /\ previous_pairs' = IF jobs[name].requires_pair
                                      THEN Append(previous_pairs, chosen)
                                      ELSE previous_pairs
       ELSE /\ previous_suggestions' = previous_suggestions
            /\ previous_pairs' = previous_pairs]_vars

\* a retry of find_complete has begun: the counters are reset and the
\* histories hold the entries of the round before, an empty tuple among them
C21_Witness ==
    /\ in_find_complete
    /\ rounds = 2
    /\ pc = "main"
    /\ calc_jobs = <<>>
    /\ \A w \in Range(servers) : jobs_doing[w] = 0
    /\ Len(previous_pairs) >= 1
    /\ \E j \in 1..Len(jobs) :
           Len(previous_suggestions[j]) = 1 /\ previous_suggestions[j][1] = <<>>

----------------------------------------------------------------------------
(* C22 *)

\* C22: every server in the chosen tuple of a job with younger_required true
\* (the value 1) is young, the job requiring a pair or not.
C22_ChosenAreYoung ==
    \A i \in 1..Len(calc_jobs) :
        jobs[i].younger_required = 1 =>
            \A w \in Chosen(i) : fields[w].is_young

----------------------------------------------------------------------------
(* C23 *)

\* C23: the step in which pair() raises the ValueError "No pair found" changes
\* no server's jobs_doing and appends nothing to previous_pairs,
\* previous_suggestions or calc_jobs: what the earlier jobs of the round wrote
\* stays as it was.
C23_FailedPairWritesNothing ==
    [][(JobNext /\ error' = "ValueError") =>
          /\ jobs_doing' = jobs_doing
          /\ previous_pairs' = previous_pairs
          /\ previous_suggestions' = previous_suggestions
          /\ calc_jobs' = calc_jobs]_vars

\* pair() has raised the ValueError for the second job of a round, with a
\* candidate in its lists; the first job's choice, counter and history entry stand
C23_Witness ==
    /\ pc = "raised"
    /\ error = "ValueError"
    /\ Len(calc_jobs) = 1
    /\ suggest.job_name = 2
    /\ InTiers(suggest) # {}
    /\ \E w \in Chosen(1) : jobs_doing[w] = 1
    /\ previous_suggestions[1] = <<calc_jobs[1].suggested>>
    /\ previous_suggestions[2] = <<>>

----------------------------------------------------------------------------
(* C24 *)

\* the list holds its servers in non-decreasing order of the counters jd
ByLoad(l, jd) == \A i, j \in 1..Len(l) : i < j => jd[l[i]] <= jd[l[j]]

\* C24: each list of the Suggestion the filter produces holds its servers in
\* non-decreasing order of jobs_doing as it stood when the job was filtered, so
\* no server that holds a job comes before an idle one, and the server chosen
\* for a job that does not require a pair has the least jobs_doing of the list
\* it is taken from.
C24_TiersByLoad ==
    [][JobNext =>
          /\ \A n \in {"min", "med", "max"} : ByLoad(suggest'.suggestions[n], jobs_doing)
          /\ \A n \in {"min", "med", "max"} :
                 \A i, j \in 1..Len(suggest'.suggestions[n]) :
                     (/\ jobs_doing[suggest'.suggestions[n][i]] = 0
                      /\ jobs_doing[suggest'.suggestions[n][j]] > 0) => i < j
          /\ (~jobs[Len(calc_jobs) + 1].requires_pair /\ suggest'.suggested # <<>>) =>
                 /\ suggest'.suggested[1] \in Range(FirstList(suggest'))
                 /\ \A w \in Range(FirstList(suggest')) :
                        jobs_doing[suggest'.suggested[1]] <= jobs_doing[w]]_vars

\* a job that does not require a pair chose an idle server, the first of a
\* list that also holds a server chosen by an earlier job of the round
C24_Witness ==
    /\ JobDone
    /\ ~jobs[LastName].requires_pair
    /\ Len(FirstList(LastSuggestion)) >= 2
    /\ LastSuggestion.suggested = <<FirstList(LastSuggestion)[1]>>
    /\ jobs_doing[FirstList(LastSuggestion)[1]] = 1
    /\ TimesChosenBefore(FirstList(LastSuggestion)[1], LastName) = 0
    /\ \E w \in Range(FirstList(LastSuggestion)) : TimesChosenBefore(w, LastName) >= 1

----------------------------------------------------------------------------
(* C25 *)

\* the young servers of a job with younger_required set
Exempt(w, job) == job.younger_required # 0 /\ fields[w].is_young

\* C25: the filter leaves in no list a server whose jobs_doing, as it stood
\* when the job was filtered, is max_jobs or more, unless the job has
\* younger_required set and the server is young; such a server is in the lists
\* exactly when it would be were no server at the quota.
C25_QuotaCutoff ==
    [][JobNext =>
          LET name == Len(calc_jobs) + 1
              unlimited == 1 + MaxOf({jobs_doing[x] : x \in Range(servers)})
              free == Classify(name, servers', jobs[name], fields, jobs_doing, unlimited,
                               previous_suggestions[name], remove_previous_suggestions)
          IN  \A w \in Range(servers) :
                  jobs_doing[w] >= max_jobs =>
                      IF Exempt(w, jobs[name])
                      THEN w \in InTiers(suggest') <=> w \in InTiers(free)
                      ELSE w \notin InTiers(suggest')]_vars

\* the second job of a round has younger_required set, and its lists hold a
\* young server that the first job chose, that is at the quota and that the
\* second job did not choose
C25_Witness ==
    /\ JobDone
    /\ LastName = 2
    /\ jobs[2].younger_required # 0
    /\ \E w \in InTiers(LastSuggestion) \ Chosen(2) :
           /\ fields[w].is_young
           /\ w \in Chosen(1)
           /\ jobs_doing[w] >= max_jobs

----------------------------------------------------------------------------
(* C26 *)

\* C26: every step leaves in the roster the same servers, each once, with the
\* same height, stamina and age flags, and leaves the job list as it is: only
\* the order of the roster and the counters jobs_doing change.
C26_RosterAndJobsKept ==
    [][/\ Len(servers') = Len(servers)
       /\ Range(servers') = Range(servers)
       /\ NoDuplicates(servers')
       /\ fields' = fields
       /\ jobs' = jobs]_vars

\* after two rounds the roster is in another order than the one it was read
\* in, and a counter has changed
C26_Witness ==
    /\ rounds >= 2
    /\ RoundComplete
    /\ Len(servers) >= 2
    /\ servers # [i \in 1..Len(servers) |-> i]
    /\ \E w \in Range(servers) : jobs_doing[w] # 0

----------------------------------------------------------------------------
(* C27 *)

\* C27: the list max of every Suggestion that _logic produces is empty, so a
\* chosen server that is in a list of its job is in min or in med.
C27_MaxListEmpty ==
    /\ suggest.suggestions["max"] = <<>>
    /\ \A i \in 1..Len(calc_jobs) :
           /\ calc_jobs[i].suggestions["max"] = <<>>
           /\ Chosen(i) \cap InTiers(calc_jobs[i]) \subseteq
                  Range(calc_jobs[i].suggestions["min"])
                      \cup Range(calc_jobs[i].suggestions["med"])

\* a job whose filter moved a server from min to med and whose chosen server
\* is taken from med, the list max being empty
C27_Witness ==
    /\ JobDone
    /\ LastSuggestion.suggestions["med"] # <<>>
    /\ LastSuggestion.suggestions["max"] = <<>>
    /\ Chosen(LastName) # {}
    /\ Chosen(LastName) \subseteq Range(LastSuggestion.suggestions["med"])

----------------------------------------------------------------------------
(* Longer histories: one more server and one more round, and            *)
(* remove_previous_suggestions = 1 beside the default                    *)

HistoryJobProfiles ==
    {Job(0, 0, FALSE, 0, FALSE, FALSE),
     Job(0, 0, FALSE, 0, FALSE, TRUE)}

InitHistory ==
    InitWith(SeqsUpTo(ServerProfiles, 1, MaxServers + 1),
             SeqsUpTo(HistoryJobProfiles, 1, MaxJobs), {FALSE}, {1, 2}, {0},
             MaxRounds + 1)

SpecHistory == InitHistory /\ [][Next]_vars

----------------------------------------------------------------------------
(* A roster of two more servers, for the lists min and med to hold a     *)
(* pair each                                                             *)

TierServerProfiles ==
    {Srv(TALL, HIGH, FALSE, FALSE, FALSE),
     Srv(3, 2, FALSE, FALSE, TRUE)}

TierJobProfiles ==
    {Job(0, 0, FALSE, 0, TRUE, TRUE),
     Job(0, 0, FALSE, 0, FALSE, FALSE)}

InitTiers ==
    InitWith(SeqsUpTo(TierServerProfiles, MaxServers + 2, MaxServers + 2),
             SeqsUpTo(TierJobProfiles, 1, 1), {FALSE}, {1, 2}, {0}, MaxRounds)

SpecTiers == InitTiers /\ [][Next]_vars

----------------------------------------------------------------------------
(* Rosters of servers without age flags, for pair jobs without            *)
(* requirements, with and without max_jobs_override                       *)

PlainServerProfiles ==
    {Srv(TALL, HIGH, FALSE, FALSE, FALSE),
     Srv(1, 1, FALSE, FALSE, FALSE)}

PlainJobProfiles ==
    {Job(0, 0, FALSE, 0, FALSE, TRUE)}

InitPlain ==
    InitWith(SeqsUpTo(PlainServerProfiles, 2, MaxServers + 2),
             SeqsUpTo(PlainJobProfiles, 1, MaxJobs), {FALSE}, {2}, {0, 1}, MaxRounds)

SpecPlain == InitPlain /\ [][Next]_vars

----------------------------------------------------------------------------
(* Rosters of three servers among A(TALL, HIGH), B(SHORT, LOW) and        *)
(* C(MEDIUM, MEDIUM), without age flags                                   *)

ScenarioServerProfiles ==
    {Srv(TALL, HIGH, FALSE, FALSE, FALSE),
     Srv(2, 1, FALSE, FALSE, FALSE),
     Srv(3, 2, FALSE, FALSE, FALSE)}

InitScenario ==
    InitWith(SeqsUpTo(ScenarioServerProfiles, MaxServers + 1, MaxServers + 1),
             SeqsUpTo(HistoryJobProfiles, 1, MaxJobs - 1), {FALSE}, {2}, {0},
             MaxRounds - 1)

SpecScenario == InitScenario /\ [][Next]_vars

----------------------------------------------------------------------------
(* Servers whose age flags are set independently (Server.from_json reads  *)
(* three booleans), for jobs with younger_required true (1) and 2          *)

AgeServerProfiles ==
    {Srv(TALL, HIGH, TRUE, TRUE, FALSE),
     Srv(3, 2, TRUE, FALSE, TRUE),
     Srv(2, 1, FALSE, TRUE, FALSE)}

AgeJobProfiles ==
    {Job(0, 0, FALSE, 1, FALSE, FALSE),
     Job(0, 0, FALSE, 2, FALSE, FALSE),
     Job(0, 0, FALSE, 1, FALSE, TRUE)}

InitAge ==
    InitWith(SeqsUpTo(AgeServerProfiles, 1, MaxServers),
             SeqsUpTo(AgeJobProfiles, 1, MaxJobs), {FALSE}, {2}, {0}, MaxRounds)

SpecAge == InitAge /\ [][Next]_vars

----------------------------------------------------------------------------
(* Young and other servers, for jobs with and without younger_required:   *)
(* servers at the quota that the cutoff exempts, and that it removes       *)

QuotaServerProfiles ==
    {Srv(2, 1, FALSE, TRUE, FALSE),
     Srv(TALL, HIGH, FALSE, FALSE, FALSE)}

QuotaJobProfiles ==
    {Job(0, 0, FALSE, 1, FALSE, FALSE),
     Job(0, 0, FALSE, 0, FALSE, FALSE),
     Job(0, 0, FALSE, 1, FALSE, TRUE)}

InitQuota ==
    InitWith(SeqsUpTo(QuotaServerProfiles, 1, MaxServers),
             SeqsUpTo(QuotaJobProfiles, 1, MaxJobs), {FALSE}, {2}, {0}, MaxRounds)

SpecQuota == InitQuota /\ [][Next]_vars

====
